---- MODULE Spec2Model ----
(***************************************************************************)
(* Clinica Vida+ (src/sistema_clinica_vida.py): the five persisted         *)
(* collections, the in-memory working copies that reload_all refreshes,    *)
(* and the menu handlers that read, mutate and save them.                  *)
(*                                                                         *)
(* A running instance of the program is a "session": it owns its module    *)
(* globals (users, patients, appointments, invoices, notifications) and    *)
(* shares the files under dados/ with every other instance.                *)
(*                                                                         *)
(* Abstractions: wall-clock timestamps (now_ts) are left out of the        *)
(* records; money is kept in whole cents; of actions.log only the entries  *)
(* appended by the latest handler are kept (no handler reads the log       *)
(* except to display it).                                                  *)
(***************************************************************************)
EXTENDS Integers, Sequences, FiniteSets, TLC

VARIABLES
    disk,   \* dados/*.json : collection name -> file
    mem,    \* session -> the module globals of that instance
    ses,    \* session -> logged-in account, position in the menus, locals
    log,    \* the lines the latest handler appended to actions.log
    ev      \* the latest handler that ran: name, session, inputs, outcome

vars == <<disk, mem, ses, log, ev>>

(***************************************************************************)
(* Values                                                                  *)
(***************************************************************************)
Colls == {"users", "patients", "appointments", "invoices", "notifications"}

Sess == {"s1", "s2"}

None == "None"

AUTH_CODE == "GESTAO-2025-CODE"

Roles == {"paciente", "medico", "gestao"}

StatusValues == {"agendado", "confirmado", "concluido", "cancelado"}

\* validar_idade returns None for a malformed age; ages are >= 0 otherwise.
IdadeNone == -1

NoUser == [username |-> "", password |-> "", role |-> "none", name |-> ""]

NoLoc == [k |-> "none"]

\* at the initial menu; hub is the role whose menu the session is in
Idle ==
    [user |-> NoUser, hub |-> "none", pc |-> "initial_hub", loc |-> NoLoc,
     tr |-> <<>>]

\* in hub_paciente, hub_medico or hub_gestao as the account that logged in
LoggedIn(user, hub) == [Idle EXCEPT !.user = user, !.hub = hub, !.pc = "hub"]

DefaultAdmin ==
    [username |-> "admin", password |-> "admin", role |-> "gestao",
     name |-> "Administrador"]

User(u, pw, role, name) ==
    [username |-> u, password |-> pw, role |-> role, name |-> name]

Patient(nome, idade, tel, user) ==
    [nome |-> nome, idade |-> idade, telefone |-> tel, user |-> user,
     last_modified_by |-> None]

(***************************************************************************)
(* Sequence helpers                                                        *)
(***************************************************************************)
Range(q) == {q[i] : i \in DOMAIN q}

RECURSIVE SumSeq(_)
SumSeq(q) == IF q = <<>> THEN 0 ELSE q[1] + SumSeq(Tail(q))

MaxOf(S) == CHOOSE x \in S : \A y \in S : y <= x

\* next(x for x in q if P(x)): index of the first match, 0 when there is none
FirstIdx(q, P(_)) ==
    IF \E i \in DOMAIN q : P(q[i])
    THEN CHOOSE i \in DOMAIN q : P(q[i]) /\ \A j \in 1..(i - 1) : ~P(q[j])
    ELSE 0

RemoveAt(q, i) == [j \in 1..(Len(q) - 1) |-> IF j < i THEN q[j] ELSE q[j + 1]]

(***************************************************************************)
(* Persisted store                                                         *)
(***************************************************************************)
File(data) == [st |-> "ok", data |-> data]

\* a file that was deleted, and one whose text json.load cannot parse (its
\* bytes are still there)
Missing == [st |-> "missing", data |-> <<>>]
Corrupt(f) == [st |-> "corrupt", data |-> f.data]

\* ensure, at program start: a missing file is created holding []
ensure(f) == IF f.st = "missing" THEN File(<<>>) ELSE f

\* (mutation) whatever records the file's bytes hold are returned
load_json_raw(f) == f.data

\* load_json: the parsed list, or [] when the file is missing or unreadable
load_json(f) == IF f.st = "ok" THEN f.data ELSE <<>>

\* save_json: the file is overwritten with the whole collection
save_json(data) == File(data)

\* save_json stopped part-way (the process is killed, or the write raises):
\* open(path, "w") has emptied the file and json.dump has written the text
\* of the first k records and an unfinished rest
save_json_partial(data, k) == [st |-> "corrupt", data |-> SubSeq(data, 1, k)]

\* reload_all: every global is replaced by what its file holds
reload_all(d) == [c \in Colls |-> load_json(d[c])]

EmptyMem == [c \in Colls |-> <<>>]

\* A handler's effect: the session's globals after it, the collections it
\* saved (each with the content the global had when save_json ran), what it
\* logged, its outcome, and the order of its store accesses.
Result(m, saved, lg, out, tr) ==
    [m |-> m, saved |-> saved, log |-> lg, out |-> out, tr |-> tr]

\* (mutation) the file is patched: the records it held that the saved copy
\* lacks are kept in front of the saved copy
Write_patch(d, r) ==
    [c \in Colls |->
        IF c \in r.saved
        THEN save_json(SelectSeq(load_json(d[c]),
                                 LAMBDA x : x \notin Range(r.m[c])) \o r.m[c])
        ELSE d[c]]

\* the files after a handler: each collection it saved is overwritten
Write(d, r) ==
    [c \in Colls |-> IF c \in r.saved THEN save_json(r.m[c]) ELSE d[c]]

Event(op, s, args, r) ==
    [op |-> op, s |-> s, args |-> args, out |-> r.out, tr |-> r.tr]

\* One-step handler of session s, back in the same menu afterwards.
Do(s, op, args, r) ==
    /\ disk' = Write(disk, r)
    /\ mem' = [mem EXCEPT ![s] = r.m]
    /\ log' = r.log
    /\ ev' = Event(op, s, args, r)
    /\ UNCHANGED ses

InHub(s, role) == ses[s].pc = "hub" /\ ses[s].hub = role

(***************************************************************************)
(* Invoices                                                                *)
(***************************************************************************)
\* round(total / n, 2) in cents.  Off a half cent the result is the nearest
\* cent.  At an exact half cent the binary double decides (0.05/2 gives
\* 0.03, 0.03/2 gives 0.01), so both neighbours are possible results.
round2_div(total, n) ==
    LET q == total \div n
        r == total % n
    IN  IF 2 * r < n THEN {q} ELSE IF 2 * r > n THEN {q + 1} ELSE {q, q + 1}

\* (mutation) every parcel gets the rounded quotient, the last one included
make_parcels_no_remainder(total, n, base) ==
    [i \in 1..n |-> [number |-> i, amount |-> base, paid |-> FALSE]]

\* the parcel loop of admin_create_invoice_for_patient
make_parcels(total, n, base) ==
    [i \in 1..n |->
        [number |-> i,
         amount |-> IF i < n THEN base ELSE total - (n - 1) * base,
         paid |-> FALSE]]

new_invoice_id(invs) ==
    IF invs = <<>> THEN 1 ELSE MaxOf({invs[i].id : i \in DOMAIN invs}) + 1

\* choose_patient_by_number: the index chosen, 0 for None
choose_patient_by_number(pats, sel) ==
    IF pats = <<>> THEN 0
    ELSE IF sel >= 1 /\ sel <= Len(pats) THEN sel ELSE 0

NumIn(v) == [kind |-> "num", v |-> v]
BadIn == [kind |-> "bad", v |-> 0]

\* (mutation) any integer other than 0 is accepted
count_ok_nonzero(n) == n.kind = "num" /\ n.v # 0

\* n = int(n_txt); assert n > 0
count_ok(n) == n.kind = "num" /\ n.v > 0

\* sel: number typed at the patient prompt; uname: username typed when the
\* patient has none ("0" cancels); total, n: parsed inputs or BadIn;
\* base: the value round() returned.
create_invoice(d, sel, uname, total, n, base) ==
    LET m1 == reload_all(d)
        i == choose_patient_by_number(m1.patients, sel)
        pu == IF i = 0 THEN None
              ELSE IF m1.patients[i].user \in {None, ""} THEN uname
              ELSE m1.patients[i].user
    IN  IF i = 0 \/ pu = "" \/ pu = "0"
        THEN Result(m1, {}, <<>>, "cancelled", <<"reload">>)
        ELSE IF total.kind = "bad"
        THEN Result(m1, {}, <<>>, "invalid_amount", <<"reload">>)
        ELSE IF ~count_ok(n)
        THEN Result(m1, {}, <<>>, "invalid_count", <<"reload">>)
        ELSE
          LET m2 == reload_all(d)
              inv == [id |-> new_invoice_id(m2.invoices), patient_user |-> pu,
                      total |-> total.v,
                      parcels |-> make_parcels(total.v, n.v, base),
                      created_by |-> "gestao"]
              m3 == [m2 EXCEPT !.invoices = Append(@, inv)]
          IN  Result(m3, {"invoices"}, <<"fatura criada">>, "ok",
                     <<"reload", "reload", "mutate:invoices", "save:invoices">>)

admin_create_invoice_for_patient(s, sel, uname, total, n) ==
    /\ InHub(s, "gestao")
    /\ \E base \in (IF total.kind = "num" /\ n.kind = "num" /\ n.v > 0
                    THEN round2_div(total.v, n.v) ELSE {0}) :
         Do(s, "admin_create_invoice_for_patient",
            [sel |-> sel, uname |-> uname, total |-> total, n |-> n],
            create_invoice(disk, sel, uname, total, n, base))

\* the literal "0" typed at a numeric prompt (back / cancel)
ZeroIn == [kind |-> "zero", v |-> 0]

\* next(i for i in invoices if i['id']==id_int): position of the first
\* invoice with that id, 0 when int() or next() raised
find_invoice(invs, idin) ==
    IF idin.kind # "num" THEN 0
    ELSE FirstIdx(invs, LAMBDA x : x.id = idin.v)

\* (mutation) a number the invoice does not have selects its last parcel
find_parcel_clamped(parcels, numin) ==
    IF numin.kind # "num" THEN 0
    ELSE IF FirstIdx(parcels, LAMBDA x : x.number = numin.v) # 0
    THEN FirstIdx(parcels, LAMBDA x : x.number = numin.v)
    ELSE Len(parcels)

\* next(p for p in inv['parcels'] if p['number']==num)
find_parcel(parcels, numin) ==
    IF numin.kind # "num" THEN 0
    ELSE FirstIdx(parcels, LAMBDA x : x.number = numin.v)

\* (mutation) the parcel is marked paid
flip_set(paid) == TRUE

\* parc['paid'] = not parc['paid']
flip(paid) == ~paid

\* (mutation) every parcel of the invoice is flipped
toggled_all(inv, j) ==
    [inv EXCEPT !.parcels = [k \in DOMAIN @ |-> [@[k] EXCEPT !.paid = flip(@)]]]

\* the invoice with parcel j flipped
toggled(inv, j) == [inv EXCEPT !.parcels[j].paid = flip(@)]

\* admin_edit_invoice_parcel; admin_list_invoices reloads
toggle_parcel(d, idin, numin) ==
    LET m1 == reload_all(d)
        i == find_invoice(m1.invoices, idin)
        j == IF i = 0 THEN 0 ELSE find_parcel(m1.invoices[i].parcels, numin)
    IN  IF idin.kind = "zero" THEN Result(m1, {}, <<>>, "cancelled", <<"reload">>)
        ELSE IF i = 0 THEN Result(m1, {}, <<>>, "invalid_id", <<"reload">>)
        ELSE IF numin.kind = "zero"
        THEN Result(m1, {}, <<>>, "cancelled", <<"reload">>)
        ELSE IF j = 0 THEN Result(m1, {}, <<>>, "invalid_parcel", <<"reload">>)
        ELSE Result([m1 EXCEPT !.invoices[i] = toggled(@, j)], {"invoices"},
                    <<"gestao alternou parcela">>, "ok",
                    <<"reload", "mutate:invoices", "save:invoices">>)

admin_edit_invoice_parcel(s, idin, numin) ==
    /\ InHub(s, "gestao")
    /\ Do(s, "admin_edit_invoice_parcel", [id |-> idin, num |-> numin],
          toggle_parcel(disk, idin, numin))

\* admin_remove_invoice; list.remove drops the first record equal to inv
remove_invoice(d, idin, confirm) ==
    LET m1 == reload_all(d)
        i == find_invoice(m1.invoices, idin)
    IN  IF idin.kind = "zero" THEN Result(m1, {}, <<>>, "cancelled", <<"reload">>)
        ELSE IF i = 0 THEN Result(m1, {}, <<>>, "invalid", <<"reload">>)
        ELSE IF ~confirm THEN Result(m1, {}, <<>>, "cancelled", <<"reload">>)
        ELSE
          LET j == FirstIdx(m1.invoices, LAMBDA x : x = m1.invoices[i])
          IN  Result([m1 EXCEPT !.invoices = RemoveAt(@, j)], {"invoices"},
                     <<"gestao removeu fatura">>, "ok",
                     <<"reload", "mutate:invoices", "save:invoices">>)

admin_remove_invoice(s, idin, confirm) ==
    /\ InHub(s, "gestao")
    /\ Do(s, "admin_remove_invoice", [id |-> idin],
          remove_invoice(disk, idin, confirm))

(***************************************************************************)
(* Users and authentication                                                *)
(***************************************************************************)

\* find_user after its reload: position of the first account with that
\* username, 0 for None
find_user(us, username) == FirstIdx(us, LAMBDA u : u.username = username)

\* position of the first patient linked to that username, 0 for None
find_patient_by_user(ps, username) == FirstIdx(ps, LAMBDA q : q.user = username)

\* (mutation) the linked patient record is appended without looking for one
link_patient_unchecked(ps, username, name) ==
    Append(ps, Patient(name, 0, "Nao informado", username))

\* criar_usuario, lines 199-204: check before insert
link_patient(ps, username, name) ==
    IF find_patient_by_user(ps, username) = 0
    THEN Append(ps, Patient(name, 0, "Nao informado", username))
    ELSE ps

\* (mutation) the authorization code is not compared
code_ok_any(code) == TRUE

\* lines 183 and 707
code_ok(code) == code = AUTH_CODE

\* given: username, password and name were passed by the caller (not
\* prompted, so "0" is not a cancel there); code: what is typed at the
\* authorization prompt when role is medico and skip_auth is false.
criar_usuario(d, role, given, username, password, name, skip_auth, code) ==
    LET m1 == reload_all(d)
        cancelled == Result(m1, {}, <<>>, "cancelled", <<"reload">>)
    IN  IF ~given /\ username = "0" THEN cancelled
        ELSE IF find_user(m1.users, username) # 0
        THEN Result(m1, {}, <<>>, "duplicate", <<"reload", "reload">>)
        ELSE IF role = "medico" /\ ~skip_auth /\ code = "0" THEN cancelled
        ELSE IF role = "medico" /\ ~skip_auth /\ ~code_ok(code)
        THEN Result(m1, {}, <<>>, "invalid_code", <<"reload", "reload">>)
        ELSE IF ~given /\ (password = "0" \/ name = "0") THEN cancelled
        ELSE
          LET m2 == [m1 EXCEPT !.users =
                         Append(@, User(username, password, role, name))]
              ps == IF role = "paciente"
                    THEN link_patient(m2.patients, username, name)
                    ELSE m2.patients
              m3 == [m2 EXCEPT !.patients = ps]
          IN  IF ps # m2.patients
              THEN Result(m3, {"users", "patients"},
                          <<"usuario criado", "paciente criado e vinculado">>,
                          "ok",
                          <<"reload", "reload", "mutate:users", "save:users",
                            "mutate:patients", "save:patients">>)
              ELSE Result(m3, {"users"}, <<"usuario criado">>, "ok",
                          <<"reload", "reload", "mutate:users", "save:users">>)

\* (mutation) the role of the account is not compared with the expected one
role_matches_any(u, role_expected) == TRUE

\* line 218
role_matches(u, role_expected) == u.role = role_expected

\* autenticar: the outcome and the account returned (NoUser for None)
autenticar(d, role_expected, username, password) ==
    LET m1 == reload_all(d)
        i == find_user(m1.users, username)
    IN  IF username = "0"
        THEN [r |-> Result(m1, {}, <<>>, "cancelled", <<"reload">>),
              user |-> NoUser]
        ELSE IF i = 0 \/ m1.users[i].password # password
        THEN [r |-> Result(m1, {}, <<>>, "invalid", <<"reload", "reload">>),
              user |-> NoUser]
        ELSE IF ~role_matches(m1.users[i], role_expected)
        THEN [r |-> Result(m1, {}, <<>>, "wrong_role", <<"reload", "reload">>),
              user |-> NoUser]
        ELSE [r |-> Result(m1, {}, <<"login">>, "ok", <<"reload", "reload">>),
              user |-> m1.users[i]]

\* (mutation) the notification is put in front of the list
notify_management_front(d, attempt_username, attempt_name, message) ==
    LET m1 == reload_all(d)
        notif == [attempt_username |-> attempt_username,
                  attempt_name |-> attempt_name, message |-> message]
    IN  Result([m1 EXCEPT !.notifications = <<notif>> \o @],
               {"notifications"}, <<"notificacao criada">>, "ok",
               <<"reload", "mutate:notifications", "save:notifications">>)

\* notify_management
notify_management(d, attempt_username, attempt_name, message) ==
    LET m1 == reload_all(d)
        notif == [attempt_username |-> attempt_username,
                  attempt_name |-> attempt_name, message |-> message]
    IN  Result([m1 EXCEPT !.notifications = Append(@, notif)],
               {"notifications"}, <<"notificacao criada">>, "ok",
               <<"reload", "mutate:notifications", "save:notifications">>)

\* main, lines 990-994: the default management account
startup(d) ==
    LET m1 == reload_all(d)
    IN  IF \E i \in DOMAIN m1.users : m1.users[i].role = "gestao"
        THEN Result(m1, {}, <<>>, "ok", <<"reload">>)
        ELSE Result([m1 EXCEPT !.users = Append(@, DefaultAdmin)], {"users"},
                    <<"gestor padrao criado">>, "created",
                    <<"reload", "mutate:users", "save:users">>)

(***************************************************************************)
(* Handlers reached from the initial menu.  Back in main's loop,           *)
(* initial_hub runs again and reloads every collection.                    *)
(***************************************************************************)
FromInitialHub(s, op, args, r, user, hub) ==
    /\ ses[s].pc = "initial_hub"
    /\ disk' = Write(disk, r)
    /\ mem' = [mem EXCEPT ![s] = IF user = NoUser THEN reload_all(disk') ELSE r.m]
    /\ log' = r.log
    /\ ev' = Event(op, s, args, r)
    /\ ses' = [ses EXCEPT ![s] =
                 IF user = NoUser THEN Idle ELSE LoggedIn(user, hub)]

\* the program is started (again): main
main(s) ==
    /\ ses[s].pc = "initial_hub"
    /\ LET d0 == [c \in Colls |-> ensure(disk[c])]
           r == startup(d0)
       IN  /\ disk' = Write(d0, r)
           /\ mem' = [mem EXCEPT ![s] = reload_all(disk')]
           /\ log' = r.log
           /\ ev' = Event("main", s, NoLoc, r)
           /\ ses' = [ses EXCEPT ![s] = Idle]

\* initial_hub: option 1/2/3 then Login
login(s, role_expected, username, password) ==
    LET a == autenticar(disk, role_expected, username, password)
    IN  FromInitialHub(s, "autenticar",
                       [role |-> role_expected, username |-> username,
                        password |-> password], a.r, a.user, role_expected)

\* hub_paciente / hub_medico / hub_gestao: option 0
logout(s) ==
    /\ ses[s].pc = "hub"
    /\ mem' = [mem EXCEPT ![s] = reload_all(disk)]
    /\ ses' = [ses EXCEPT ![s] = Idle]
    /\ log' = <<>>
    /\ ev' = [op |-> "logout", s |-> s, args |-> NoLoc, out |-> "ok",
              tr |-> <<"reload">>]
    /\ UNCHANGED disk

\* initial_hub: option 1, then 2 (Criar conta (paciente))
register_patient(s, username, password, name) ==
    FromInitialHub(s, "criar_usuario",
                   [role |-> "paciente", username |-> username, via |-> "self"],
                   criar_usuario(disk, "paciente", FALSE, username, password,
                                 name, FALSE, "0"),
                   NoUser, "none")

\* medico_create_hub, option 1
medico_create(d, code, username, password, name) ==
    LET m1 == reload_all(d)
        cancelled == Result(m1, {}, <<>>, "cancelled", <<>>)
    IN  IF code = "0" THEN cancelled
        ELSE IF ~code_ok(code) THEN Result(m1, {}, <<>>, "invalid_code", <<>>)
        ELSE IF username = "0" THEN cancelled
        ELSE IF find_user(m1.users, username) # 0
        THEN Result(m1, {}, <<>>, "duplicate", <<"reload">>)
        ELSE IF password = "0" \/ name = "0" THEN cancelled
        ELSE criar_usuario(d, "medico", TRUE, username, password, name, TRUE, "0")

medico_create_hub_code(s, code, username, password, name) ==
    FromInitialHub(s, "medico_create_hub",
                   [role |-> "medico", username |-> username, code |-> code,
                    via |-> "self"],
                   medico_create(disk, code, username, password, name),
                   NoUser, "none")

\* medico_create_hub, option 2
medico_create_hub_notify(s, username, name, message) ==
    FromInitialHub(s, "notify_management",
                   [username |-> username, name |-> name, message |-> message],
                   IF username = "0" \/ name = "0" \/ message = "0"
                   THEN Result(reload_all(disk), {}, <<>>, "cancelled", <<>>)
                   ELSE notify_management(disk, username, name, message),
                   NoUser, "none")

(***************************************************************************)
(* hub_gestao: users and patients                                          *)
(***************************************************************************)
\* a Python list index (negative counts from the end) as a position 1..n,
\* 0 when it raises IndexError
py_index(i, n) ==
    IF i >= 0 /\ i < n THEN i + 1
    ELSE IF i < 0 /\ -i <= n THEN n + i + 1
    ELSE 0

\* validar_idade
validar_idade(v) == IF v.kind = "num" /\ v.v >= 0 THEN v.v ELSE IdadeNone

\* admin_create_user: role typed, then criar_usuario prompts for the rest
admin_create_user(s, role, username, password, name) ==
    /\ InHub(s, "gestao")
    /\ Do(s, "admin_create_user",
          [role |-> role, username |-> username, via |-> "gestao"],
          IF role = "0" \/ role \notin Roles
          THEN Result(mem[s], {}, <<>>, "cancelled", <<>>)
          ELSE criar_usuario(disk, role, FALSE, username, password, name,
                             role = "medico", "0"))

remove_user(d, idx) ==
    LET m1 == reload_all(d)
        i == IF idx.kind = "num" THEN py_index(idx.v - 1, Len(m1.users)) ELSE 0
    IN  IF idx.kind = "zero" THEN Result(m1, {}, <<>>, "cancelled", <<"reload">>)
        ELSE IF i = 0 THEN Result(m1, {}, <<>>, "invalid", <<"reload">>)
        ELSE Result([m1 EXCEPT !.users = RemoveAt(@, i)], {"users"},
                    <<"usuario removido">>, "ok",
                    <<"reload", "mutate:users", "save:users">>)

admin_remove_user(s, idx) ==
    /\ InHub(s, "gestao")
    /\ Do(s, "admin_remove_user", [idx |-> idx], remove_user(disk, idx))

\* admin_crud_patients, option 2: appended to the global as it stands
create_patient(m, nome, idade, tel, userlink) ==
    IF nome = "0" THEN Result(m, {}, <<>>, "cancelled", <<>>)
    ELSE
      LET age == IF validar_idade(idade) = IdadeNone THEN 0
                 ELSE validar_idade(idade)
          p == Patient(nome, age, IF tel = "" THEN "Nao informado" ELSE tel,
                       IF userlink \in {"", "0"} THEN None ELSE userlink)
      IN  Result([m EXCEPT !.patients = Append(@, p)], {"patients"},
                 <<"gestao criou paciente">>, "ok",
                 <<"mutate:patients", "save:patients">>)

admin_create_patient(s, nome, idade, tel, userlink) ==
    /\ InHub(s, "gestao")
    /\ Do(s, "admin_create_patient", [nome |-> nome, userlink |-> userlink],
          create_patient(mem[s], nome, idade, tel, userlink))

\* admin_crud_patients, option 3; "" at a prompt keeps the field
edit_patient(d, idx, nome, idade, tel, userlink) ==
    LET m1 == reload_all(d)
        i == IF idx.kind = "num" THEN py_index(idx.v - 1, Len(m1.patients)) ELSE 0
    IN  IF idx.kind = "zero" THEN Result(m1, {}, <<>>, "cancelled", <<"reload">>)
        ELSE IF i = 0 THEN Result(m1, {}, <<>>, "invalid", <<"reload">>)
        ELSE
          LET p == m1.patients[i]
              q == [p EXCEPT
                      !.nome = IF nome = "" THEN @ ELSE nome,
                      !.idade = IF idade.kind = "empty" THEN @
                                ELSE validar_idade(idade),
                      !.telefone = IF tel = "" THEN @ ELSE tel,
                      !.user = IF userlink = "" THEN @ ELSE userlink]
          IN  Result([m1 EXCEPT !.patients[i] = q], {"patients"},
                     <<"gestao editou paciente">>, "ok",
                     <<"reload", "mutate:patients", "save:patients">>)

admin_edit_patient(s, idx, nome, idade, tel, userlink) ==
    /\ InHub(s, "gestao")
    /\ Do(s, "admin_edit_patient",
          [idx |-> idx, idade |-> idade, userlink |-> userlink],
          edit_patient(disk, idx, nome, idade, tel, userlink))

\* ENTER at a prompt
EmptyIn == [kind |-> "empty", v |-> 0]

\* hub_paciente option 2; "0" at a prompt abandons, "" keeps the field; tel
\* is "" or a number already in the form format_telefone gives
edit_own(d, user, nome, idade, tel) ==
    LET m1 == reload_all(d)
        i == find_patient_by_user(m1.patients, user.username)
    IN  IF i = 0 THEN Result(m1, {}, <<>>, "none", <<"reload">>)
        ELSE IF nome = "0" \/ idade.kind = "zero" \/ tel = "0"
        THEN Result(m1, {}, <<>>, "cancelled", <<"reload">>)
        ELSE
          LET q == [m1.patients[i] EXCEPT
                      !.nome = IF nome = "" THEN @ ELSE nome,
                      !.idade = IF idade.kind = "empty" THEN @
                                ELSE validar_idade(idade),
                      !.telefone = IF tel = "" THEN @ ELSE tel,
                      !.last_modified_by = user.username]
          IN  Result([m1 EXCEPT !.patients[i] = q], {"patients"},
                     <<"paciente atualizou cadastro">>, "ok",
                     <<"reload", "mutate:patients", "save:patients">>)

hub_paciente_edit_own(s, nome, idade, tel) ==
    /\ InHub(s, "paciente")
    /\ Do(s, "hub_paciente_edit_own", [nome |-> nome, idade |-> idade],
          edit_own(disk, ses[s].user, nome, idade, tel))

\* admin_crud_patients, option 4
remove_patient(d, idx) ==
    LET m1 == reload_all(d)
        i == IF idx.kind = "num" THEN py_index(idx.v - 1, Len(m1.patients)) ELSE 0
    IN  IF idx.kind = "zero" THEN Result(m1, {}, <<>>, "cancelled", <<"reload">>)
        ELSE IF i = 0 THEN Result(m1, {}, <<>>, "invalid", <<"reload">>)
        ELSE Result([m1 EXCEPT !.patients = RemoveAt(@, i)], {"patients"},
                    <<"gestao removeu paciente">>, "ok",
                    <<"reload", "mutate:patients", "save:patients">>)

admin_remove_patient(s, idx) ==
    /\ InHub(s, "gestao")
    /\ Do(s, "admin_remove_patient", [idx |-> idx], remove_patient(disk, idx))

\* hub_gestao, option 9
exemplos ==
    << [nome |-> "Joao Silva", idade |-> 45, telefone |-> "(11) 99999-9999",
        user |-> "joaos", last_modified_by |-> None],
       [nome |-> "Maria Lima", idade |-> 32, telefone |-> "(11) 98888-8888",
        user |-> "marial", last_modified_by |-> None],
       [nome |-> "Pedro Souza", idade |-> 60, telefone |-> "(11) 97777-7777",
        user |-> "pedros", last_modified_by |-> None],
       [nome |-> "Nicolas Telas", idade |-> 19, telefone |-> "(11) 96666-6666",
        user |-> "Nicolas", last_modified_by |-> None],
       [nome |-> "Nastia Nestle", idade |-> 22, telefone |-> "(11) 95555-5555",
        user |-> "Nastia", last_modified_by |-> None],
       [nome |-> "Rennato Cariane", idade |-> 54, telefone |-> "(11) 94444-4444",
        user |-> "Rennato", last_modified_by |-> None],
       [nome |-> "Ramon Dino", idade |-> 49, telefone |-> "(11) 93333-3333",
        user |-> "Ramon", last_modified_by |-> None] >>

insert_examples(m) ==
    Result([m EXCEPT !.patients = @ \o exemplos], {"patients"},
           <<"inseridos dados exemplo">>, "ok",
           <<"mutate:patients", "save:patients">>)

admin_insert_examples(s) ==
    /\ InHub(s, "gestao")
    /\ Do(s, "insert_examples", NoLoc, insert_examples(mem[s]))

(***************************************************************************)
(* Appointments                                                            *)
(***************************************************************************)
\* (mutation) the record is created with a status outside the four values
Appt_pending(id, patient_user, patient_name, doctor_user, dt, notes) ==
    [id |-> id, patient_user |-> patient_user, patient_name |-> patient_name,
     doctor_user |-> doctor_user, datetime |-> dt, status |-> "pendente",
     notes |-> notes, created_by |-> patient_user, last_modified_by |-> None]

\* the record cadastrar_agendamento builds
Appt(id, patient_user, patient_name, doctor_user, dt, notes) ==
    [id |-> id, patient_user |-> patient_user, patient_name |-> patient_name,
     doctor_user |-> doctor_user, datetime |-> dt, status |-> "agendado",
     notes |-> notes, created_by |-> patient_user, last_modified_by |-> None]

\* (mutation) the id is the number of records plus one
new_appt_id_len(as) == Len(as) + 1

\* new_appt_id on the reloaded list
new_appt_id(as) ==
    IF as = <<>> THEN 1 ELSE MaxOf({as[i].id : i \in DOMAIN as}) + 1

\* the accounts with role medico, in list order
RECURSIVE medicos(_)
medicos(us) ==
    IF us = <<>> THEN <<>>
    ELSE IF us[1].role = "medico" THEN <<us[1]>> \o medicos(Tail(us))
    ELSE medicos(Tail(us))

\* escolher_medico_por_numero: the username chosen, None for no doctor
escolher_medico_por_numero(us, sel) ==
    IF medicos(us) = <<>> THEN None
    ELSE IF sel.kind = "num" /\ sel.v >= 1 /\ sel.v <= Len(medicos(us))
    THEN medicos(us)[sel.v].username
    ELSE None

WithReload(r) == [r EXCEPT !.tr = <<"reload">> \o @]

\* hub_paciente option 3, before cadastrar_agendamento: the patient record
\* is created when the username has none
book_link(m, user) ==
    IF find_patient_by_user(m.patients, user.username) = 0
    THEN Result([m EXCEPT !.patients =
                    Append(@, Patient(user.name, 0, "Nao informado",
                                      user.username))],
                {"patients"}, <<>>, "linked",
                <<"mutate:patients", "save:patients">>)
    ELSE Result(m, {}, <<>>, "present", <<>>)

\* cadastrar_agendamento up to new_appt_id: the record to append, from the
\* globals m as reloaded by new_appt_id (doc was chosen before that reload)
book_record(m, user, doc, dt, notes) ==
    Appt(new_appt_id(m.appointments), user.username, user.name, doc, dt, notes)

\* cadastrar_agendamento, lines 310-313
book_save(m, appt) ==
    Result([m EXCEPT !.appointments = Append(@, appt)], {"appointments"},
           <<"agendamento criado">>, "ok",
           <<"mutate:appointments", "save:appointments">>)

\* hub_paciente option 3 as a whole
book(d, user, docsel, dt, notes) ==
    LET l == book_link(reload_all(d), user)
        m2 == l.m
        doc == escolher_medico_por_numero(m2.users, docsel)
    IN  IF dt = "0"
        THEN Result(m2, l.saved, <<>>, "cancelled", <<"reload">> \o l.tr \o <<"reload">>)
        ELSE
          LET b == book_save(m2, book_record(m2, user, doc, dt, notes))
          IN  Result(b.m, l.saved \cup b.saved, b.log, "ok",
                     <<"reload">> \o l.tr \o <<"reload", "reload">> \o b.tr)

hub_paciente_book(s, docsel, dt, notes) ==
    /\ InHub(s, "paciente")
    /\ Do(s, "cadastrar_agendamento", [doc |-> docsel, dt |-> dt],
          book(disk, ses[s].user, docsel, dt, notes))

\* (mutation) the record is looked up by id alone
any_appt(as, idin, username) ==
    IF idin.kind # "num" THEN 0
    ELSE FirstIdx(as, LAMBDA a : a.id = idin.v)

\* the appointment a patient names by id: position of the first record with
\* that id and the patient's username, 0 when there is none
own_appt(as, idin, username) ==
    IF idin.kind # "num" THEN 0
    ELSE FirstIdx(as, LAMBDA a : a.id = idin.v /\ a.patient_user = username)

has_own(as, username) == \E i \in DOMAIN as : as[i].patient_user = username

\* (mutation) the edit puts the appointment back to scheduled
edited_rescheduled(ap, username, doc, dt) ==
    [ap EXCEPT !.datetime = IF dt = "" THEN @ ELSE dt,
               !.doctor_user = IF doc = None THEN @ ELSE doc,
               !.status = "agendado",
               !.last_modified_by = username]

\* (mutation) selecting no doctor unassigns the appointment
edited_unassigned(ap, username, doc, dt) ==
    [ap EXCEPT !.datetime = IF dt = "" THEN @ ELSE dt,
               !.doctor_user = doc,
               !.last_modified_by = username]

\* the record after the patient's edit: no doctor chosen keeps the doctor it
\* has, dt = "" keeps the date
edited(ap, username, doc, dt) ==
    [ap EXCEPT !.datetime = IF dt = "" THEN @ ELSE dt,
               !.doctor_user = IF doc = None THEN @ ELSE doc,
               !.last_modified_by = username]

\* (mutation) the cancellation is not stamped with the actor
cancelled_unstamped(ap, username) == [ap EXCEPT !.status = "cancelado"]

\* the record after the patient's cancellation
cancelled(ap, username) ==
    [ap EXCEPT !.status = "cancelado", !.last_modified_by = username]

\* paciente_agendamentos_menu option 2, after listar_meus_agendamentos;
\* dt = "" keeps the date
patient_edit(m, user, idin, docsel, dt) ==
    LET i == own_appt(m.appointments, idin, user.username)
        doc == escolher_medico_por_numero(m.users, docsel)
    IN  IF ~has_own(m.appointments, user.username)
        THEN Result(m, {}, <<>>, "none", <<>>)
        ELSE IF idin.kind = "zero" THEN Result(m, {}, <<>>, "cancelled", <<>>)
        ELSE IF i = 0 THEN Result(m, {}, <<>>, "invalid", <<>>)
        ELSE
          LET q == edited(m.appointments[i], user.username, doc, dt)
          IN  Result([m EXCEPT !.appointments[i] = q], {"appointments"},
                     <<"paciente editou agendamento">>, "ok",
                     <<"mutate:appointments", "save:appointments">>)

\* option 3
patient_cancel(m, user, idin, confirm) ==
    LET i == own_appt(m.appointments, idin, user.username)
    IN  IF ~has_own(m.appointments, user.username)
        THEN Result(m, {}, <<>>, "none", <<>>)
        ELSE IF idin.kind = "zero" THEN Result(m, {}, <<>>, "cancelled", <<>>)
        ELSE IF i = 0 THEN Result(m, {}, <<>>, "invalid", <<>>)
        ELSE IF ~confirm THEN Result(m, {}, <<>>, "cancelled", <<>>)
        ELSE
          LET q == cancelled(m.appointments[i], user.username)
          IN  Result([m EXCEPT !.appointments[i] = q], {"appointments"},
                     <<"paciente cancelou agendamento">>, "ok",
                     <<"mutate:appointments", "save:appointments">>)

\* option 4; list.remove drops the first record equal to the one found
patient_remove(m, user, idin, confirm) ==
    LET i == own_appt(m.appointments, idin, user.username)
    IN  IF ~has_own(m.appointments, user.username)
        THEN Result(m, {}, <<>>, "none", <<>>)
        ELSE IF idin.kind = "zero" THEN Result(m, {}, <<>>, "cancelled", <<>>)
        ELSE IF i = 0 THEN Result(m, {}, <<>>, "invalid", <<>>)
        ELSE IF ~confirm THEN Result(m, {}, <<>>, "cancelled", <<>>)
        ELSE
          LET j == FirstIdx(m.appointments, LAMBDA a : a = m.appointments[i])
          IN  Result([m EXCEPT !.appointments = RemoveAt(@, j)],
                     {"appointments"}, <<"paciente removeu agendamento">>, "ok",
                     <<"mutate:appointments", "save:appointments">>)

paciente_edit(s, idin, docsel, dt) ==
    /\ InHub(s, "paciente")
    /\ Do(s, "paciente_edit", [id |-> idin, doc |-> docsel],
          WithReload(patient_edit(reload_all(disk), ses[s].user, idin, docsel, dt)))

paciente_cancel(s, idin, confirm) ==
    /\ InHub(s, "paciente")
    /\ Do(s, "paciente_cancel", [id |-> idin, confirm |-> confirm],
          WithReload(patient_cancel(reload_all(disk), ses[s].user, idin, confirm)))

paciente_remove(s, idin, confirm) ==
    /\ InHub(s, "paciente")
    /\ Do(s, "paciente_remove", [id |-> idin],
          WithReload(patient_remove(reload_all(disk), ses[s].user, idin, confirm)))

\* str.lower() on the status typed
Lower(t) ==
    CASE t = "AGENDADO" -> "agendado"
      [] t = "CONFIRMADO" -> "confirmado"
      [] t = "CONCLUIDO" -> "concluido"
      [] t = "CANCELADO" -> "cancelado"
      [] OTHER -> t

\* (mutation) the assignment is not compared
doctor_appt_any(as, idin, doctor_user) ==
    IF idin.kind # "num" THEN 0
    ELSE FirstIdx(as, LAMBDA a : a.id = idin.v)

\* the appointment a doctor names by id: first record with that id that is
\* assigned to the doctor
doctor_appt(as, idin, doctor_user) ==
    IF idin.kind # "num" THEN 0
    ELSE FirstIdx(as, LAMBDA a : a.id = idin.v /\ a.doctor_user = doctor_user)

\* (mutation) a cancelled or completed appointment is closed
may_change_open(ap, novo) ==
    /\ Lower(novo) \in StatusValues
    /\ ap.status \notin {"cancelado", "concluido"}

\* the status typed is accepted when it is one of the four values, whatever
\* status the appointment has
may_change(ap, novo) == Lower(novo) \in StatusValues

\* editar_status_agendamento_medico, after ver_agendamentos_medico
doctor_status(m, doctor_user, idin, novo) ==
    LET i == doctor_appt(m.appointments, idin, doctor_user)
    IN  IF idin.kind = "zero" THEN Result(m, {}, <<>>, "cancelled", <<>>)
        ELSE IF i = 0 THEN Result(m, {}, <<>>, "invalid", <<>>)
        ELSE IF ~may_change(m.appointments[i], novo)
        THEN Result(m, {}, <<>>, "invalid_status", <<>>)
        ELSE
          LET q == [m.appointments[i] EXCEPT
                      !.status = Lower(novo),
                      !.last_modified_by = doctor_user]
          IN  Result([m EXCEPT !.appointments[i] = q], {"appointments"},
                     <<"dr atualizou status">>, "ok",
                     <<"mutate:appointments", "save:appointments">>)

editar_status_agendamento_medico(s, idin, novo) ==
    /\ InHub(s, "medico")
    /\ Do(s, "editar_status", [id |-> idin, novo |-> novo],
          WithReload(doctor_status(reload_all(disk), ses[s].user.username,
                                   idin, novo)))

(***************************************************************************)
(* Invoice creation over a range of totals and parcel counts               *)
(***************************************************************************)
MaxCents == 12
MaxParcels == 4

TotalInputs ==
    {NumIn(c) : c \in (-1..MaxCents) \cup {10000, 15000}} \cup {BadIn}

CountInputs == {NumIn(k) : k \in (-1)..MaxParcels} \cup {BadIn}

PatAna == Patient("Ana", 0, "Nao informado", "ana")
PatBare == Patient("Rui", 30, "Nao informado", None)

\* a management session is logged in; management has created or patients
\* have registered some of the patient records
InitInvoice ==
    /\ \E pats \in {<<>>, <<PatAna>>, <<PatBare, PatAna>>} :
         disk = [c \in Colls |->
                   File(IF c = "users" THEN <<DefaultAdmin>>
                        ELSE IF c = "patients" THEN pats ELSE <<>>)]
    /\ mem = [s \in Sess |-> reload_all(disk)]
    /\ ses = [s \in Sess |->
                IF s = "s1" THEN LoggedIn(DefaultAdmin, "gestao") ELSE Idle]
    /\ log = <<>>
    /\ ev = [op |-> "autenticar", s |-> "s1", args |-> NoLoc, out |-> "ok",
             tr |-> <<"reload">>]

\* the first invoice of the data files: an invoice's parcels depend on its
\* own total and count only
InvoiceRoom == load_json(disk.invoices) = <<>>

NextInvoice ==
    \E sel \in 0..3, uname \in {"0", "rui"}, total \in TotalInputs,
       n \in CountInputs :
        /\ InvoiceRoom
        /\ admin_create_invoice_for_patient("s1", sel, uname, total, n)

SpecInvoice == InitInvoice /\ [][NextInvoice]_vars

LastInvoice == load_json(disk.invoices)[Len(load_json(disk.invoices))]

Amounts(inv) == [i \in DOMAIN inv.parcels |-> inv.parcels[i].amount]

Abs(x) == IF x < 0 THEN -x ELSE x

\* C1: an invoice created from a positive total t (whole cents) and a count
\* n > 0 has exactly n installments numbered 1..n; installments 1..n-1 are
\* t/n rounded to the nearest cent, the last is t minus the others, and the
\* n amounts add up to t (100.00/3 gives 33.33, 33.33, 33.34; 150.00/2
\* gives 75.00, 75.00).
C1_InstallmentsSumToTotal ==
    (ev.op = "admin_create_invoice_for_patient" /\ ev.out = "ok"
        /\ ev.args.total.v > 0) =>
      LET t == ev.args.total.v
          n == ev.args.n.v
          a == Amounts(LastInvoice)
      IN  /\ LastInvoice.total = t
          /\ Len(a) = n
          /\ \A i \in 1..n : LastInvoice.parcels[i].number = i
          /\ \A i \in 1..(n - 1) : 2 * Abs(n * a[i] - t) <= n
          /\ a[n] = t - SumSeq(SubSeq(a, 1, n - 1))
          /\ SumSeq(a) = t
          /\ (t = 10000 /\ n = 3) => a = <<3333, 3333, 3334>>
          /\ (t = 15000 /\ n = 2) => a = <<7500, 7500>>

C1_Witness ==
    /\ ev.op = "admin_create_invoice_for_patient" /\ ev.out = "ok"
    /\ ev.args.total.v = 10000 /\ ev.args.n.v = 3
    /\ Amounts(LastInvoice) = <<3333, 3333, 3334>>

(***************************************************************************)
(* Specifications over appointments, one session                           *)
(***************************************************************************)
MaxApptId == 2

Ana == User("ana", "pw", "paciente", "Ana")
Bob == User("bob", "pw", "paciente", "Bob")
Dr1 == User("dr1", "pw", "medico", "Dr1")
Dr2 == User("dr2", "pw", "medico", "Dr2")
PatBob == Patient("Bob", 0, "Nao informado", "bob")

IdInputs == {ZeroIn, BadIn} \cup {NumIn(k) : k \in 0..MaxApptId}

\* the program has been started, the given accounts have been created and
\* the given patient records exist; every session is at the initial menu
InitWith(us, ps) ==
    /\ disk = [c \in Colls |->
                 File(IF c = "users" THEN us
                      ELSE IF c = "patients" THEN ps ELSE <<>>)]
    /\ mem = [s \in Sess |-> reload_all(disk)]
    /\ ses = [s \in Sess |-> Idle]
    /\ log = <<>>
    /\ ev = [op |-> "main", s |-> "s1", args |-> NoLoc, out |-> "ok",
             tr |-> <<"reload">>]

ApptRoom == new_appt_id(load_json(disk.appointments)) <= MaxApptId

\* two patients and one doctor: booking, editing, cancelling, removing
InitPatientAppt == InitWith(<<DefaultAdmin, Ana, Bob, Dr1>>, <<PatAna, PatBob>>)

NextPatientAppt ==
    \/ \E u \in {"ana", "bob"} : login("s1", "paciente", u, "pw")
    \/ logout("s1")
    \/ \E dt \in {"d1", "0"} :
          ApptRoom /\ hub_paciente_book("s1", ZeroIn, dt, "")
    \/ \E idin \in IdInputs, docsel \in {ZeroIn, NumIn(1)} :
          paciente_edit("s1", idin, docsel, "d2")
    \/ \E idin \in IdInputs, confirm \in BOOLEAN :
          paciente_cancel("s1", idin, confirm)
    \/ \E idin \in IdInputs, confirm \in BOOLEAN :
          paciente_remove("s1", idin, confirm)

SpecPatientAppt == InitPatientAppt /\ [][NextPatientAppt]_vars

\* one patient and two doctors: booking and status changes
InitDoctorAppt == InitWith(<<DefaultAdmin, Ana, Dr1, Dr2>>, <<PatAna>>)

NextDoctorAppt ==
    \/ login("s1", "paciente", "ana", "pw")
    \/ \E u \in {"dr1", "dr2"} : login("s1", "medico", u, "pw")
    \/ logout("s1")
    \/ \E docsel \in {ZeroIn, NumIn(1), NumIn(2)} :
          ApptRoom /\ hub_paciente_book("s1", docsel, "d1", "")
    \/ \E idin \in IdInputs,
           novo \in StatusValues \cup {"CONFIRMADO", "remarcado"} :
          editar_status_agendamento_medico("s1", idin, novo)

SpecDoctorAppt == InitDoctorAppt /\ [][NextDoctorAppt]_vars

(***************************************************************************)
(* Specifications over accounts, one session                               *)
(***************************************************************************)
MaxPatients == 2
MaxNotifs == 1

\* the state after the program was started for the first time
InitFirstRun == InitWith(<<DefaultAdmin>>, <<>>)

\* logging in and out, registering, removing accounts, restarting
NextAuth ==
    \/ main("s1")
    \/ \E role \in Roles, u \in {"admin", "ana", "0"}, pw \in {"admin", "pw"} :
          login("s1", role, u, pw)
    \/ logout("s1")
    \/ \E u \in {"admin", "ana"} : register_patient("s1", u, "pw", "N")
    \/ \E u \in {"admin", "ana"} :
          medico_create_hub_code("s1", AUTH_CODE, u, "pw", "N")
    \/ \E idx \in {ZeroIn, NumIn(1), NumIn(2), NumIn(3)} :
          admin_remove_user("s1", idx)

SpecAuth == InitFirstRun /\ [][NextAuth]_vars

PatientRoom == Len(load_json(disk.patients)) < MaxPatients

\* creating accounts on every path, removing them, patient records
NextAccounts ==
    \/ main("s1")
    \/ \E u \in {"admin", "ana"}, pw \in {"admin", "pw"} :
          login("s1", "gestao", u, pw)
    \/ logout("s1")
    \/ \E u \in {"admin", "ana", "0"} : register_patient("s1", u, "pw", "N")
    \/ \E code \in {AUTH_CODE, "wrong", "", "0"}, u \in {"admin", "ana"} :
          medico_create_hub_code("s1", code, u, "pw", "N")
    \/ /\ Len(load_json(disk.notifications)) < MaxNotifs
       /\ \E u \in {"ana", "0"} :
            medico_create_hub_notify("s1", u, "N", "please")
    \/ \E role \in Roles \cup {"0"}, u \in {"admin", "ana"} :
          admin_create_user("s1", role, u, "pw", "N")
    \/ \E idx \in {ZeroIn, NumIn(1), NumIn(2), NumIn(3)} :
          admin_remove_user("s1", idx)
    \/ /\ PatientRoom
       /\ \E link \in {"0", "ana"} :
            admin_create_patient("s1", "N", NumIn(0), "", link)
    \/ \E idx \in {ZeroIn, NumIn(1), NumIn(2)} :
          admin_remove_patient("s1", idx)

SpecAccounts == InitFirstRun /\ [][NextAccounts]_vars

(***************************************************************************)
(* Two consoles on the same data files.  Each runs the program with its    *)
(* own globals; a handler that waits at a prompt, or that has read the     *)
(* files and not yet written them, is split where the other may run.       *)
(***************************************************************************)

\* the step that ends a handler begun in an earlier step: it works on the
\* globals as that earlier step left them
Commit(s, op, args, r) ==
    /\ disk' = Write(disk, r)
    /\ mem' = [mem EXCEPT ![s] = r.m]
    /\ log' = r.log
    /\ ev' = Event(op, s, args, [r EXCEPT !.tr = ses[s].tr \o @])
    /\ ses' = [ses EXCEPT ![s].pc = "hub", ![s].loc = NoLoc, ![s].tr = <<>>]

\* hub_paciente option 3 up to the record built with new_appt_id(), whose
\* reload_all is the last read of the files before the append and the save
book_begin(s, docsel, dt, notes) ==
    /\ InHub(s, "paciente")
    /\ LET l == book_link(reload_all(disk), ses[s].user)
           m2 == l.m
           doc == escolher_medico_por_numero(m2.users, docsel)
           tr == <<"reload">> \o l.tr \o <<"reload", "reload">>
       IN  /\ disk' = Write(disk, l)
           /\ mem' = [mem EXCEPT ![s] = m2]
           /\ log' = <<>>
           /\ ev' = [op |-> "new_appt_id", s |-> s, args |-> NoLoc,
                     out |-> "begun", tr |-> tr]
           /\ ses' = [ses EXCEPT
                        ![s].pc = "book_save",
                        ![s].loc = [k |-> "appt",
                                    appt |-> book_record(m2, ses[s].user, doc,
                                                         dt, notes)],
                        ![s].tr = tr]

\* cadastrar_agendamento, lines 310-313, on the globals new_appt_id loaded
book_commit(s) ==
    /\ ses[s].pc = "book_save"
    /\ Commit(s, "cadastrar_agendamento", NoLoc,
              book_save(mem[s], ses[s].loc.appt))

\* paciente_agendamentos_menu option 3 up to the prompt for the id:
\* listar_meus_agendamentos reloads, and with nothing to cancel the menu
\* is shown again
cancel_begin(s) ==
    /\ InHub(s, "paciente")
    /\ LET m1 == reload_all(disk)
           some == has_own(m1.appointments, ses[s].user.username)
       IN  /\ mem' = [mem EXCEPT ![s] = m1]
           /\ log' = <<>>
           /\ ev' = [op |-> "listar_meus_agendamentos", s |-> s,
                     args |-> NoLoc,
                     out |-> IF some THEN "begun" ELSE "none",
                     tr |-> <<"reload">>]
           /\ ses' = [ses EXCEPT
                        ![s].pc = IF some THEN "cancel" ELSE "hub",
                        ![s].tr = IF some THEN <<"reload">> ELSE <<>>]
           /\ UNCHANGED disk

\* option 3 from the answer to the prompt on
cancel_commit(s, idin, confirm) ==
    /\ ses[s].pc = "cancel"
    /\ Commit(s, "paciente_cancel", [id |-> idin],
              patient_cancel(mem[s], ses[s].user, idin, confirm))

\* the patient at each console
UserAt(s) == IF s = "s1" THEN "ana" ELSE "bob"

InitInterleaved == InitWith(<<DefaultAdmin, Ana, Bob>>, <<PatAna, PatBob>>)

\* both consoles book and cancel, their steps in any order
NextInterleaved ==
    \/ \E s \in Sess : login(s, "paciente", UserAt(s), "pw")
    \/ \E s \in Sess : ApptRoom /\ book_begin(s, ZeroIn, "d1", "")
    \/ \E s \in Sess : book_commit(s)
    \/ \E s \in Sess : cancel_begin(s)
    \/ \E s \in Sess, idin \in {ZeroIn, NumIn(1), NumIn(2)} :
          cancel_commit(s, idin, TRUE)

SpecInterleaved == InitInterleaved /\ [][NextInterleaved]_vars

\* management at one console, the public menu and a patient at the other;
\* every handler runs from start to end before the next one starts
InitSequential == InitWith(<<DefaultAdmin, Ana>>, <<>>)

NextSequential ==
    \/ login("s1", "gestao", "admin", "admin")
    \/ logout("s1")
    \/ PatientRoom /\ admin_create_patient("s1", "N", NumIn(0), "", "0")
    \/ PatientRoom /\ admin_insert_examples("s1")
    \/ register_patient("s2", "bob", "pw", "Bob")
    \/ /\ Len(load_json(disk.notifications)) < MaxNotifs
       /\ medico_create_hub_notify("s2", "dr1", "Dr1", "please")
    \/ login("s2", "paciente", "ana", "pw")
    \/ logout("s2")
    \/ ApptRoom /\ hub_paciente_book("s2", ZeroIn, "d1", "")

SpecSequential == InitSequential /\ [][NextSequential]_vars

(***************************************************************************)
(* Specification over ids: one console, appointments and invoices created  *)
(* and removed                                                             *)
(***************************************************************************)
MaxInvoiceId == 2

InitIds == InitWith(<<DefaultAdmin, Ana>>, <<PatAna>>)

InvoiceIdRoom == new_invoice_id(load_json(disk.invoices)) <= MaxInvoiceId

NextIds ==
    \/ login("s1", "gestao", "admin", "admin")
    \/ login("s1", "paciente", "ana", "pw")
    \/ logout("s1")
    \/ ApptRoom /\ hub_paciente_book("s1", ZeroIn, "d1", "")
    \/ \E k \in 1..MaxApptId : paciente_remove("s1", NumIn(k), TRUE)
    \/ /\ InvoiceIdRoom
       /\ admin_create_invoice_for_patient("s1", 1, "0", NumIn(2), NumIn(1))
    \/ \E k \in 1..MaxInvoiceId : admin_remove_invoice("s1", NumIn(k), TRUE)

SpecIds == InitIds /\ [][NextIds]_vars

(***************************************************************************)
(* Specification over invoices: management creates invoices, toggles       *)
(* parcels and removes invoices                                            *)
(***************************************************************************)
InitInvoiceOps ==
    /\ disk = [c \in Colls |->
                 File(IF c = "users" THEN <<DefaultAdmin>>
                      ELSE IF c = "patients" THEN <<PatAna>> ELSE <<>>)]
    /\ mem = [s \in Sess |-> reload_all(disk)]
    /\ ses = [s \in Sess |->
                IF s = "s1" THEN LoggedIn(DefaultAdmin, "gestao") ELSE Idle]
    /\ log = <<>>
    /\ ev = [op |-> "autenticar", s |-> "s1", args |-> NoLoc, out |-> "ok",
             tr |-> <<"reload">>]

InvoiceIdInputs == {ZeroIn, BadIn} \cup {NumIn(k) : k \in 0..MaxInvoiceId}

ParcelInputs == {ZeroIn, BadIn} \cup {NumIn(k) : k \in (-1)..3}

NextInvoiceOps ==
    \/ /\ InvoiceIdRoom
       /\ \E n \in {NumIn(1), NumIn(2)} :
            admin_create_invoice_for_patient("s1", 1, "0", NumIn(4), n)
    \/ \E idin \in InvoiceIdInputs, numin \in ParcelInputs :
          admin_edit_invoice_parcel("s1", idin, numin)
    \/ \E idin \in InvoiceIdInputs, confirm \in BOOLEAN :
          admin_remove_invoice("s1", idin, confirm)

SpecInvoiceOps == InitInvoiceOps /\ [][NextInvoiceOps]_vars

(***************************************************************************)
(* Specification over notifications: the public menu at one console,       *)
(* management at the other, every handler from start to end                *)
(***************************************************************************)
MaxNotifLen == 2

NextNotify ==
    \/ main("s2")
    \/ /\ Len(load_json(disk.notifications)) < MaxNotifLen
       /\ \E u \in {"dr1", "0"}, msg \in {"m1", "m2"} :
            medico_create_hub_notify("s2", u, "Dr1", msg)
    \/ \E code \in {AUTH_CODE, "wrong"} :
          medico_create_hub_code("s2", code, "dr1", "pw", "Dr1")
    \/ login("s1", "gestao", "admin", "admin")
    \/ logout("s1")
    \/ \E idx \in {NumIn(1), NumIn(2)} : admin_remove_user("s1", idx)
    \/ PatientRoom /\ admin_create_patient("s1", "N", NumIn(0), "", "0")

SpecNotify == InitFirstRun /\ [][NextNotify]_vars

(***************************************************************************)
(* Specification over damaged files: between handlers a data file may be   *)
(* deleted or left with text that does not parse                           *)
(***************************************************************************)
\* the environment deletes or garbles a file
damage(c, how) ==
    /\ disk[c].st = "ok"
    /\ disk' = [disk EXCEPT ![c] = IF how = "missing" THEN Missing
                                    ELSE Corrupt(@)]
    /\ ev' = [op |-> "damage", s |-> "s1", args |-> [c |-> c], out |-> how,
              tr |-> <<>>]
    /\ log' = <<>>
    /\ UNCHANGED <<mem, ses>>

NextStore ==
    \/ main("s1")
    \/ \E c \in {"users", "notifications"}, how \in {"missing", "corrupt"} :
          damage(c, how)
    \/ /\ Len(load_json(disk.notifications)) < MaxNotifLen
       /\ \E msg \in {"m1", "m2"} :
            medico_create_hub_notify("s1", "dr1", "Dr1", msg)
    \/ register_patient("s1", "ana", "pw", "Ana")
    \/ login("s1", "gestao", "admin", "admin")
    \/ logout("s1")

SpecStore == InitFirstRun /\ [][NextStore]_vars

(***************************************************************************)
(* Specification over interrupted saves: the process may stop inside       *)
(* save_json                                                               *)
(***************************************************************************)
\* medico_create_hub option 2, stopped inside notify_management's save_json;
\* the program has ended and is at its first menu when started again
notify_interrupted(s, username, name, message) ==
    /\ ses[s].pc = "initial_hub"
    /\ LET r == notify_management(disk, username, name, message)
       IN  \E k \in 0..(Len(r.m.notifications) - 1) :
             /\ disk' = [disk EXCEPT !.notifications =
                           save_json_partial(r.m.notifications, k)]
             /\ mem' = [mem EXCEPT ![s] = reload_all(disk')]
             /\ log' = <<>>
             /\ ev' = [op |-> "notify_management", s |-> s,
                       args |-> [username |-> username, name |-> name,
                                 message |-> message],
                       out |-> "interrupted",
                       tr |-> <<"reload", "mutate:notifications">>]
             /\ ses' = [ses EXCEPT ![s] = Idle]

NextCrash ==
    \/ main("s1")
    \/ \E u \in {"ana", "bob"} : register_patient("s1", u, "pw", "N")
    \/ login("s1", "gestao", "admin", "admin")
    \/ logout("s1")
    \/ /\ Len(load_json(disk.notifications)) < MaxNotifLen
       /\ \E msg \in {"m1", "m2"} :
            medico_create_hub_notify("s1", "dr1", "Dr1", msg)
    \/ /\ Len(load_json(disk.notifications)) < MaxNotifLen
       /\ \E msg \in {"m1", "m2"} :
            notify_interrupted("s1", "dr1", "Dr1", msg)

SpecCrash == InitFirstRun /\ [][NextCrash]_vars

(***************************************************************************)
(* Specification over patient records and accounts: management's lists by  *)
(* number, the patient's own record                                        *)
(***************************************************************************)
IdxInputs == {ZeroIn, BadIn} \cup {NumIn(k) : k \in (-1)..(MaxPatients + 1)}

AgeInputs == {EmptyIn, BadIn, NumIn(-1), NumIn(5)}

InitRecords == InitWith(<<DefaultAdmin, Ana>>, <<PatAna>>)

NextRecords ==
    \/ main("s1")
    \/ login("s1", "gestao", "admin", "admin")
    \/ login("s1", "paciente", "ana", "pw")
    \/ logout("s1")
    \/ PatientRoom /\ admin_create_patient("s1", "N", NumIn(0), "", "0")
    \/ \E idx \in IdxInputs, idade \in AgeInputs :
          admin_edit_patient("s1", idx, "", idade, "", "")
    \/ \E idx \in IdxInputs : admin_remove_patient("s1", idx)
    \/ \E idx \in IdxInputs : admin_remove_user("s1", idx)
    \/ \E nome \in {"", "0"}, idade \in AgeInputs \cup {ZeroIn} :
          hub_paciente_edit_own("s1", nome, idade, "")

SpecRecords == InitRecords /\ [][NextRecords]_vars

(***************************************************************************)
(* Specification over the life of an appointment: the patient, the doctor  *)
(* and management take turns at one console                                *)
(***************************************************************************)
MaxLifeId == 1

InitLife == InitWith(<<DefaultAdmin, Ana, Dr1>>, <<PatAna>>)

LifeIds == {ZeroIn} \cup {NumIn(k) : k \in 1..MaxLifeId}

LifeRoom == new_appt_id(load_json(disk.appointments)) <= MaxLifeId

NextLife ==
    \/ login("s1", "paciente", "ana", "pw")
    \/ login("s1", "medico", "dr1", "pw")
    \/ login("s1", "gestao", "admin", "admin")
    \/ logout("s1")
    \/ \E docsel \in {ZeroIn, NumIn(1), NumIn(2)}, dt \in {"d1", "0"} :
          LifeRoom /\ hub_paciente_book("s1", docsel, dt, "")
    \/ \E idin \in LifeIds, docsel \in {ZeroIn, NumIn(1)} :
          paciente_edit("s1", idin, docsel, "")
    \/ \E idin \in LifeIds, confirm \in BOOLEAN :
          paciente_cancel("s1", idin, confirm)
    \/ \E idin \in LifeIds, confirm \in BOOLEAN :
          paciente_remove("s1", idin, confirm)
    \/ \E idin \in LifeIds,
          novo \in StatusValues \cup {"CONFIRMADO", "remarcado"} :
          editar_status_agendamento_medico("s1", idin, novo)
    \/ /\ InvoiceRoom
       /\ admin_create_invoice_for_patient("s1", 1, "0", NumIn(2), NumIn(1))
    \/ /\ Len(load_json(disk.notifications)) < MaxNotifs
       /\ medico_create_hub_notify("s1", "dr2", "Dr2", "please")
    \/ register_patient("s1", "bob", "pw", "Bob")
    \/ \E idx \in {ZeroIn, NumIn(1)} :
          admin_edit_patient("s1", idx, "", NumIn(5), "", "")

SpecLife == InitLife /\ [][NextLife]_vars

(***************************************************************************)
(* Specification over abandoned operations: the cancel value at a prompt,  *)
(* a declined confirmation                                                 *)
(***************************************************************************)
InitAbandon == InitWith(<<DefaultAdmin, Ana, Dr1>>, <<PatAna>>)

NextAbandon ==
    \/ login("s1", "paciente", "ana", "pw")
    \/ login("s1", "gestao", "admin", "admin")
    \/ logout("s1")
    \/ \E u \in {"0", "bob"}, pw \in {"0", "pw"}, nm \in {"0", "Bob"} :
          register_patient("s1", u, pw, nm)
    \/ \E idx \in {ZeroIn, NumIn(1)} : admin_remove_patient("s1", idx)
    \/ \E idin \in {ZeroIn, NumIn(1)}, confirm \in BOOLEAN :
          admin_remove_invoice("s1", idin, confirm)
    \/ /\ InvoiceRoom
       /\ \E uname \in {"0", "ana"} :
             admin_create_invoice_for_patient("s1", 0, uname, NumIn(2), NumIn(1))
    \/ \E dt \in {"d1", "0"} :
          LifeRoom /\ hub_paciente_book("s1", ZeroIn, dt, "")
    \/ \E idin \in LifeIds, confirm \in BOOLEAN : paciente_cancel("s1", idin, confirm)
    \/ \E idin \in LifeIds, confirm \in BOOLEAN : paciente_remove("s1", idin, confirm)
    \/ \E nome \in {"", "0"}, idade \in {EmptyIn, ZeroIn, NumIn(5)} :
          hub_paciente_edit_own("s1", nome, idade, "")

SpecAbandon == InitAbandon /\ [][NextAbandon]_vars

Users(d) == load_json(d.users)

Patients(d) == load_json(d.patients)

\* C7: authenticate(username, password, expectedRole) succeeds, returning
\* the account, exactly when an account with that username, that password
\* and that role exists; a failure changes no collection and logs nothing,
\* a success logs one entry.
C7_AuthenticateExactly ==
    [][ev'.op = "autenticar" =>
        LET a == ev'.args
            matching == {i \in DOMAIN Users(disk) :
                            /\ Users(disk)[i].username = a.username
                            /\ Users(disk)[i].password = a.password
                            /\ Users(disk)[i].role = a.role}
        IN  /\ ev'.out = "ok" <=> matching # {}
            /\ disk' = disk
            /\ ev'.out = "ok" =>
                 /\ \E i \in matching : ses'[ev'.s].user = Users(disk)[i]
                 /\ Len(log') = 1
            /\ ev'.out # "ok" => log' = <<>> /\ ses'[ev'.s].user = NoUser
       ]_vars

DoctorCount(us) == Cardinality({i \in DOMAIN us : us[i].role = "medico"})

\* C8: the number of doctor accounts in the users collection grows only in
\* the self-service flow given the authorization code, or in a creation made
\* from a session logged in as management; a self-service attempt with a
\* wrong or empty code, and a notification, leave the users unchanged.
C8_DoctorCreationPaths ==
    [][/\ DoctorCount(Users(disk')) > DoctorCount(Users(disk)) =>
            \/ ev'.op = "medico_create_hub" /\ ev'.args.code = AUTH_CODE
            \/ /\ ev'.op = "admin_create_user"
               /\ ses[ev'.s].hub = "gestao"
               /\ ses[ev'.s].user.role = "gestao"
       /\ (ev'.op = "medico_create_hub" /\ ev'.args.code # AUTH_CODE) =>
            Users(disk') = Users(disk)
       /\ ev'.op = "notify_management" => Users(disk') = Users(disk)
      ]_vars

\* a wrong code was presented, and a doctor account exists
C8_Witness ==
    /\ ev.op = "medico_create_hub" /\ ev.args.code = "wrong"
    /\ ev.out = "invalid_code"
    /\ DoctorCount(Users(disk)) > 0

LinkedCount(ps, u) == Cardinality({i \in DOMAIN ps : ps[i].user = u})

CreationOps == {"criar_usuario", "admin_create_user", "medico_create_hub"}

\* C9: creating a patient account for a username with no linked Patient
\* record appends exactly one record linked to it; creating one for a
\* username that has a linked record leaves the patients as they are; no
\* account creation raises the number of records linked to a username
\* above one.
C9_OneLinkedPatient ==
    [][ev'.op \in CreationOps =>
        LET old == Patients(disk)
            new == Patients(disk')
            u == ev'.args.username
        IN  /\ (ev'.out = "ok" /\ ev'.args.role = "paciente") =>
                 /\ LinkedCount(old, u) = 0 =>
                      /\ Len(new) = Len(old) + 1
                      /\ SubSeq(new, 1, Len(old)) = old
                      /\ new[Len(new)].user = u
                 /\ LinkedCount(old, u) > 0 => new = old
            /\ (ev'.out # "ok" \/ ev'.args.role # "paciente") => new = old
            /\ \A w \in {"admin", "ana"} :
                 LinkedCount(new, w) > LinkedCount(old, w) =>
                     LinkedCount(new, w) = 1
       ]_vars

\* a patient account was created for a username that had a linked record:
\* only the account creation was logged
C9_Witness ==
    /\ ev.op = "criar_usuario" /\ ev.out = "ok" /\ Len(log) = 1
    /\ LinkedCount(Patients(disk), ev.args.username) >= 1
    /\ \E i \in DOMAIN Users(disk) :
          /\ Users(disk)[i].username = ev.args.username
          /\ Users(disk)[i].role = "paciente"

\* C10: every account with role paciente has exactly one Patient record
\* linked to its username.
C10_PatientAccountLinked ==
    \A i \in DOMAIN Users(disk) :
        Users(disk)[i].role = "paciente" =>
            LinkedCount(Patients(disk), Users(disk)[i].username) = 1

Appts(d) == load_json(d.appointments)

OthersOf(as, u) == SelectSeq(as, LAMBDA a : a.patient_user # u)

PatientOps == {"paciente_edit", "paciente_cancel", "paciente_remove"}

\* C5: a patient's edit, cancel and remove leave every appointment of every
\* other patient as it was, change at most the one appointment named by id,
\* and when the id is not the id of one of the patient's own appointments
\* (another patient's, or no appointment's) the action fails and the
\* appointments are unchanged, persisted and in memory.
C5_PatientOwnOnly ==
    [][ev'.op \in PatientOps =>
        LET u == ses[ev'.s].user.username
            old == Appts(disk)
            new == Appts(disk')
            idin == ev'.args.id
            own == idin.kind = "num" /\
                   \E i \in DOMAIN old :
                       old[i].id = idin.v /\ old[i].patient_user = u
        IN  /\ OthersOf(new, u) = OthersOf(old, u)
            /\ \A i \in DOMAIN old :
                   (idin.kind = "num" => old[i].id # idin.v) =>
                       \E j \in DOMAIN new : new[j] = old[i]
            /\ ~own => /\ ev'.out # "ok"
                       /\ disk' = disk
                       /\ mem'[ev'.s].appointments = mem[ev'.s].appointments
            /\ ev'.out = "ok" => own
       ]_vars

\* a patient named another patient's appointment and was refused
C5_Witness ==
    /\ ev.op \in PatientOps /\ ev.out = "invalid" /\ ev.args.id.kind = "num"
    /\ \E i \in DOMAIN Appts(disk) :
          /\ Appts(disk)[i].id = ev.args.id.v
          /\ Appts(disk)[i].patient_user # ses[ev.s].user.username

\* C6: a doctor's status change succeeds only on an appointment assigned to
\* that doctor and with one of the four status values (in any letter case);
\* it then changes that appointment's status and nothing else.  For an
\* unassigned appointment, another doctor's, an unknown id or another status
\* it is rejected and the appointments are unchanged.
C6_DoctorAssignedOnly ==
    [][ev'.op = "editar_status" =>
        LET d == ses[ev'.s].user.username
            old == Appts(disk)
            new == Appts(disk')
            idin == ev'.args.id
            mine == {i \in DOMAIN old :
                        idin.kind = "num" /\ old[i].id = idin.v
                        /\ old[i].doctor_user = d}
            allowed == Lower(ev'.args.novo) \in StatusValues
        IN  /\ ev'.out = "ok" <=> (mine # {} /\ allowed)
            /\ ev'.out = "ok" =>
                 \E i \in mine :
                    /\ new = [old EXCEPT ![i].status = Lower(ev'.args.novo),
                                         ![i].last_modified_by = d]
                    /\ new[i].status \in StatusValues
            /\ ev'.out # "ok" =>
                 /\ disk' = disk
                 /\ mem'[ev'.s].appointments = mem[ev'.s].appointments
       ]_vars

\* a doctor named an appointment assigned to the other doctor, and one
\* assigned to nobody exists too
C6_Witness ==
    /\ ev.op = "editar_status" /\ ev.out = "invalid" /\ ev.args.id.kind = "num"
    /\ \E i \in DOMAIN Appts(disk) :
          /\ Appts(disk)[i].id = ev.args.id.v
          /\ Appts(disk)[i].doctor_user \notin {None, ses[ev.s].user.username}
    /\ \E i \in DOMAIN Appts(disk) : Appts(disk)[i].doctor_user = None


(***************************************************************************)
(* Store discipline                                                        *)
(***************************************************************************)
SaveOf == [c \in Colls |->
             CASE c = "users" -> "save:users"
               [] c = "patients" -> "save:patients"
               [] c = "appointments" -> "save:appointments"
               [] c = "invoices" -> "save:invoices"
               [] OTHER -> "save:notifications"]

MutateOf == [c \in Colls |->
               CASE c = "users" -> "mutate:users"
                 [] c = "patients" -> "mutate:patients"
                 [] c = "appointments" -> "mutate:appointments"
                 [] c = "invoices" -> "mutate:invoices"
                 [] OTHER -> "mutate:notifications"]

\* C2: in the store accesses of every operation, each save of a collection
\* comes after a mutation of that collection, which comes after a reload
\* made in the same operation; management's patient creation and the
\* sample-data insertion included.
C2_RefreshMutatePersist ==
    \A c \in Colls : \A k \in DOMAIN ev.tr :
        ev.tr[k] = SaveOf[c] =>
            \E i \in 1..k, j \in 1..k :
                i < j /\ j < k /\ ev.tr[i] = "reload" /\ ev.tr[j] = MutateOf[c]

InFlight == {"book_save", "cancel"}

\* C3: when a console persists appointments from a copy it loaded before
\* the other console persisted, the file holds exactly what this second
\* writer saved: its own copy with its one mutation.  Every record the first
\* writer persisted that the second had not loaded is gone, and nothing of
\* the two is merged.
C3_LastWriterWins ==
    [][\A s \in Sess :
         (ses[s].pc \in InFlight /\ ses'[s].pc = "hub" /\ ev'.out = "ok") =>
            LET mine == mem[s].appointments
                stored == Appts(disk)
                new == Appts(disk')
            IN  /\ new = mem'[s].appointments
                /\ \A r \in Range(stored) \ Range(mine) : r \notin Range(new)
                /\ Cardinality(Range(new) \ Range(mine)) <= 1
                /\ \A i \in DOMAIN mine :
                      \/ new[i] = mine[i]
                      \/ /\ new[i].id = mine[i].id
                         /\ new[i].last_modified_by = ses[s].user.username
                /\ Len(new) \in {Len(mine), Len(mine) + 1}
                /\ Len(new) = Len(mine) + 1 => new[Len(new)] = ses[s].loc.appt]_vars

\* both consoles loaded the empty file, both booked; the second save is
\* what the file holds and the first booking exists only in the memory of
\* the console that made it
C3_Witness ==
    /\ ev.op = "cadastrar_agendamento" /\ ev.s = "s2" /\ ev.out = "ok"
    /\ Len(mem["s1"].appointments) = 1 /\ Len(mem["s2"].appointments) = 1
    /\ mem["s1"].appointments[1].patient_user = "ana"
    /\ mem["s2"].appointments[1].patient_user = "bob"
    /\ mem["s1"].appointments[1].id = mem["s2"].appointments[1].id
    /\ Appts(disk) = mem["s2"].appointments

IsPrefix(p, q) == Len(p) <= Len(q) /\ SubSeq(q, 1, Len(p)) = p

\* C4: when operations run one after the other, each complete before the
\* next starts, an operation that adds to a collection leaves every record
\* persisted before it in place: the file afterwards starts with the file
\* before.
C4_SequentialBothPersist ==
    [][\A c \in Colls : IsPrefix(load_json(disk[c]), load_json(disk'[c]))]_vars


(***************************************************************************)
(* Ids                                                                     *)
(***************************************************************************)
Invoices(d) == load_json(d.invoices)

Ids(q) == {q[i].id : i \in DOMAIN q}

DistinctIds(q) == \A i \in DOMAIN q, j \in DOMAIN q : q[i].id = q[j].id => i = j

\* the record appended to old has id 1 when old is empty and otherwise the
\* greatest id of old plus 1
FreshId(old, new) ==
    /\ Len(new) = Len(old) + 1
    /\ SubSeq(new, 1, Len(old)) = old
    /\ old = <<>> => new[Len(new)].id = 1
    /\ old # <<>> => /\ \A x \in Ids(old) : new[Len(new)].id > x
                     /\ new[Len(new)].id - 1 \in Ids(old)

\* C11: a created appointment, and a created invoice, gets id 1 when its
\* collection as reloaded is empty and the greatest id in it plus 1
\* otherwise; in every reachable state the appointment ids are pairwise
\* distinct and so are the invoice ids.
C11_IdsMaxPlusOne ==
    /\ [](DistinctIds(Appts(disk)) /\ DistinctIds(Invoices(disk)))
    /\ [][/\ (ev'.op = "cadastrar_agendamento" /\ ev'.out = "ok") =>
               FreshId(Appts(disk), Appts(disk'))
          /\ (ev'.op = "admin_create_invoice_for_patient" /\ ev'.out = "ok") =>
               FreshId(Invoices(disk), Invoices(disk'))]_vars

\* an invoice was created next to one with a smaller id, two appointments
\* exist
C11_Witness ==
    /\ ev.op = "admin_create_invoice_for_patient" /\ ev.out = "ok"
    /\ Len(Invoices(disk)) = 2
    /\ Invoices(disk)[2].id = Invoices(disk)[1].id + 1
    /\ Len(Appts(disk)) = 2


\* C12: ids only grow over the life of a collection: an appointment booked
\* right after an appointment was removed gets an id greater than the id of
\* the removed one, so no id is given to a second record.
C12_IdsNeverReused ==
    [][(/\ ev.op = "paciente_remove" /\ ev.out = "ok"
        /\ ev'.op = "cadastrar_agendamento" /\ ev'.out = "ok") =>
          Appts(disk')[Len(Appts(disk'))].id > ev.args.id.v]_vars


(***************************************************************************)
(* Invoice creation: rejected inputs                                       *)
(***************************************************************************)
CreateOp == "admin_create_invoice_for_patient"

\* the prompts for total and count are reached: a patient was chosen and
\* has, or was given, a username
PatientChosen(a) ==
    /\ a.sel \in DOMAIN Patients(disk)
    /\ Patients(disk)[a.sel].user \in {None, ""} => a.uname \notin {"", "0"}

\* C13: invoice creation with a total that is zero or negative creates no
\* invoice and leaves the invoices as they were.
C13_NonPositiveTotalRejected ==
    [][(/\ ev'.op = CreateOp /\ PatientChosen(ev'.args)
        /\ ev'.args.total.kind = "num" /\ ev'.args.total.v <= 0
        /\ count_ok(ev'.args.n)) =>
          /\ ev'.out = "invalid_amount"
          /\ Invoices(disk') = Invoices(disk)]_vars

\* C14: invoice creation with a count that is zero, negative or not an
\* integer ends with the invalid-count outcome, creates no invoice and
\* leaves the invoices unchanged, persisted and in memory.
C14_InvalidCountRejected ==
    [][(/\ ev'.op = CreateOp /\ PatientChosen(ev'.args)
        /\ ev'.args.total.kind = "num"
        /\ (ev'.args.n.kind = "bad" \/ ev'.args.n.v <= 0)) =>
          /\ ev'.out = "invalid_count"
          /\ Invoices(disk') = Invoices(disk)
          /\ mem'[ev'.s].invoices = mem[ev'.s].invoices]_vars

\* a negative count was refused
C14_Witness ==
    /\ ev.op = CreateOp /\ ev.out = "invalid_count"
    /\ ev.args.n.kind = "num" /\ ev.args.n.v < 0
    /\ ev.args.total.kind = "num" /\ ev.args.total.v > 0


(***************************************************************************)
(* Parcels: paid flag                                                      *)
(***************************************************************************)
ToggleOp == "admin_edit_invoice_parcel"

\* positions (invoice, parcel) named by an invoice id and a parcel number
Targets(invs, idin, numin) ==
    UNION {{<<i, j>> : j \in {k \in DOMAIN invs[i].parcels :
                                /\ idin.kind = "num" /\ numin.kind = "num"
                                /\ invs[i].id = idin.v
                                /\ invs[i].parcels[k].number = numin.v}} :
           i \in DOMAIN invs}

\* C15: toggling an existing parcel of an existing invoice succeeds, flips
\* that parcel's paid flag and persists it; from every reachable state,
\* toggling the same parcel twice in succession gives back the persisted
\* invoices of before the first toggle.
C15_ToggleTwiceRestores ==
    /\ [](\A idin \in InvoiceIdInputs, numin \in ParcelInputs :
            LET r1 == toggle_parcel(disk, idin, numin)
                d1 == Write(disk, r1)
                r2 == toggle_parcel(d1, idin, numin)
                d2 == Write(d1, r2)
            IN  r1.out = "ok" =>
                  /\ Invoices(d1) # Invoices(disk)
                  /\ r2.out = "ok"
                  /\ Invoices(d2) = Invoices(disk))
    /\ [][ev'.op = ToggleOp =>
            LET old == Invoices(disk)
                new == Invoices(disk')
                tg == Targets(old, ev'.args.id, ev'.args.num)
            IN  /\ tg # {} => ev'.out = "ok"
                /\ ev'.out = "ok" =>
                     /\ tg # {}
                     /\ \A x \in tg :
                          new[x[1]].parcels[x[2]].paid =
                            ~old[x[1]].parcels[x[2]].paid
                     /\ mem'[ev'.s].invoices = new]_vars

\* a parcel was toggled back to unpaid
C15_Witness ==
    /\ ev.op = ToggleOp /\ ev.out = "ok"
    /\ \E x \in Targets(Invoices(disk), ev.args.id, ev.args.num) :
          ~Invoices(disk)[x[1]].parcels[x[2]].paid

\* C16: a toggle that names an invoice id not in the collection, or a
\* parcel number the invoice does not have, fails and leaves every invoice
\* as it was, persisted and in memory.
C16_ToggleUnknownRejected ==
    [][(/\ ev'.op = ToggleOp
        /\ Targets(Invoices(disk), ev'.args.id, ev'.args.num) = {}) =>
          /\ ev'.out \in {"invalid_id", "invalid_parcel", "cancelled"}
          /\ (ev'.args.id.kind # "zero" /\ ev'.args.num.kind # "zero") =>
                ev'.out \in {"invalid_id", "invalid_parcel"}
          /\ Invoices(disk') = Invoices(disk)
          /\ mem'[ev'.s].invoices = mem[ev'.s].invoices]_vars

\* a parcel number the invoice does not have was refused while the invoice
\* has a paid parcel
C16_Witness ==
    /\ ev.op = ToggleOp /\ ev.out = "invalid_parcel" /\ ev.args.num.kind = "num"
    /\ \E i \in DOMAIN Invoices(disk) :
          /\ Invoices(disk)[i].id = ev.args.id.v
          /\ \E j \in DOMAIN Invoices(disk)[i].parcels :
                Invoices(disk)[i].parcels[j].paid

\* an invoice without its paid flags
Shape(inv) ==
    [inv EXCEPT !.parcels = [k \in DOMAIN @ |-> [@[k] EXCEPT !.paid = FALSE]]]

\* the positions whose paid flag differs
PaidDiff(old, new) ==
    UNION {{<<i, j>> : j \in {k \in DOMAIN old[i].parcels :
                                old[i].parcels[k].paid # new[i].parcels[k].paid}} :
           i \in DOMAIN old}

\* C17: a toggle keeps the list of invoices and everything of each invoice
\* but the paid flag of the one parcel it names; a removal takes out the
\* one invoice it names, whole; a creation appends; nothing else changes
\* an invoice.
C17_InvoiceStructureFixed ==
    [][LET old == Invoices(disk)
           new == Invoices(disk')
       IN  /\ (ev'.op = ToggleOp /\ ev'.out = "ok") =>
                 /\ Len(new) = Len(old)
                 /\ \A i \in DOMAIN old : Shape(new[i]) = Shape(old[i])
                 /\ PaidDiff(old, new) =
                      Targets(old, ev'.args.id, ev'.args.num)
                 /\ Cardinality(PaidDiff(old, new)) = 1
           /\ (ev'.op = "admin_remove_invoice" /\ ev'.out = "ok") =>
                 \E k \in DOMAIN old :
                    old[k].id = ev'.args.id.v /\ new = RemoveAt(old, k)
           /\ (ev'.op = CreateOp /\ ev'.out = "ok") =>
                 Len(new) = Len(old) + 1 /\ SubSeq(new, 1, Len(old)) = old
           /\ ev'.out # "ok" => new = old]_vars

\* one parcel of a two-parcel invoice is paid, the other is not, and there
\* is a second invoice
C17_Witness ==
    /\ ev.op = ToggleOp /\ ev.out = "ok"
    /\ Len(Invoices(disk)) = 2
    /\ \E i \in DOMAIN Invoices(disk) :
          /\ Invoices(disk)[i].id = ev.args.id.v
          /\ Len(Invoices(disk)[i].parcels) = 2
          /\ Invoices(disk)[i].parcels[1].paid # Invoices(disk)[i].parcels[2].paid


(***************************************************************************)
(* Notifications                                                           *)
(***************************************************************************)
Notifs(d) == load_json(d.notifications)

\* C18: a submitted notification is one record (requested username,
\* requested name, message) appended at the end of the notifications, and
\* no account is created by it; no other operation changes the
\* notifications, so with handlers running one after the other the list
\* only grows at its end.
C18_NotificationsAppendOnly ==
    [][LET old == Notifs(disk)
           new == Notifs(disk')
       IN  /\ IsPrefix(old, new)
           /\ (ev'.op = "notify_management" /\ ev'.out = "ok") =>
                 /\ new = Append(old, [attempt_username |-> ev'.args.username,
                                       attempt_name |-> ev'.args.name,
                                       message |-> ev'.args.message])
                 /\ Users(disk') = Users(disk)
           /\ ~(ev'.op = "notify_management" /\ ev'.out = "ok") =>
                 new = old]_vars

\* a second notification, with another message, came after the first
C18_Witness ==
    /\ ev.op = "notify_management" /\ ev.out = "ok"
    /\ Len(Notifs(disk)) = 2
    /\ Notifs(disk)[1].message # Notifs(disk)[2].message
    /\ Notifs(disk)[2].message = ev.args.message


\* C19: no two accounts of the persisted users share a username, after any
\* sequence of registrations, management creations, removals and start-ups.
C19_UsernamesUnique ==
    \A i \in DOMAIN Users(disk), j \in DOMAIN Users(disk) :
        Users(disk)[i].username = Users(disk)[j].username => i = j


(***************************************************************************)
(* Missing and unreadable files                                            *)
(***************************************************************************)
\* C20: a collection whose file is missing or does not parse loads as the
\* empty list; the handler that loaded it goes on as with an empty
\* collection, so a notification or an account appended next is persisted
\* as the only record of its file.
C20_DamagedLoadsEmpty ==
    /\ [](\A c \in Colls :
            disk[c].st # "ok" =>
               load_json(disk[c]) = <<>> /\ reload_all(disk)[c] = <<>>)
    /\ [][/\ (ev'.op = "notify_management" /\ disk.notifications.st # "ok") =>
               /\ ev'.out = "ok"
               /\ disk'.notifications =
                    File(<<[attempt_username |-> ev'.args.username,
                            attempt_name |-> ev'.args.name,
                            message |-> ev'.args.message]>>)
          /\ (ev'.op = "criar_usuario" /\ disk.users.st # "ok") =>
               /\ ev'.out = "ok"
               /\ disk'.users = File(<<User(ev'.args.username, "pw",
                                            "paciente", "Ana")>>)
          /\ (ev'.op = "autenticar" /\ disk.users.st # "ok") =>
               /\ ev'.out = "invalid"
               /\ mem'[ev'.s].users = <<>>
               /\ disk' = disk]_vars

\* the users file was damaged, then a patient registered: the file holds
\* that account alone
C20_Witness ==
    /\ ev.op = "criar_usuario" /\ ev.out = "ok"
    /\ disk.users = File(<<User("ana", "pw", "paciente", "Ana")>>)


\* C21: whatever happens to a save, after every step each data file holds
\* either the complete content it held before the step or a complete new
\* content; it is never left half-written.
C21_SaveAllOrNothing ==
    [][\A c \in Colls : disk'[c] = disk[c] \/ disk'[c].st = "ok"]_vars


(***************************************************************************)
(* Patient records: malformed age, removal by number                       *)
(***************************************************************************)
EditOps == {"admin_edit_patient", "hub_paciente_edit_own"}

\* C22: an edit of a patient record with an age that is not an integer, or
\* is negative, does not succeed and leaves the persisted patients as they
\* were.
C22_MalformedAgeRejected ==
    [][(/\ ev'.op \in EditOps
        /\ \/ ev'.args.idade.kind = "bad"
           \/ ev'.args.idade.kind = "num" /\ ev'.args.idade.v < 0) =>
          /\ ev'.out # "ok"
          /\ Patients(disk') = Patients(disk)]_vars

\* C29: management's removal by list number removes a record only for a
\* number from 1 to the length of the list, and then the record at that
\* position; for any other number it fails and the list is unchanged.
C29_RemoveByListNumber ==
    [][/\ ev'.op = "admin_remove_user" =>
            LET old == Users(disk)
                new == Users(disk')
                idx == ev'.args.idx
            IN  IF idx.kind = "num" /\ idx.v \in DOMAIN old
                THEN ev'.out = "ok" /\ new = RemoveAt(old, idx.v)
                ELSE ev'.out # "ok" /\ new = old
       /\ ev'.op = "admin_remove_patient" =>
            LET old == Patients(disk)
                new == Patients(disk')
                idx == ev'.args.idx
            IN  IF idx.kind = "num" /\ idx.v \in DOMAIN old
                THEN ev'.out = "ok" /\ new = RemoveAt(old, idx.v)
                ELSE ev'.out # "ok" /\ new = old]_vars

\* C23: an appointment's status changes only through its patient's
\* cancellation (to cancelled) or its assigned doctor's status change; every
\* other operation leaves the status of every appointment as it was
C23_StatusChangedOnlyByCancelOrDoctor ==
    [][\A i \in DOMAIN Appts(disk), j \in DOMAIN Appts(disk') :
          LET a == Appts(disk)[i]
              b == Appts(disk')[j]
              actor == ses[ev'.s].user.username
          IN  (a.id = b.id /\ a.status # b.status) =>
                 /\ ev'.out = "ok"
                 /\ ev'.args.id = NumIn(a.id)
                 /\ \/ /\ ev'.op = "paciente_cancel"
                       /\ a.patient_user = actor
                       /\ b.status = "cancelado"
                    \/ /\ ev'.op = "editar_status"
                       /\ a.doctor_user = actor
                       /\ b.status = Lower(ev'.args.novo)
       ]_vars

\* a patient's edit went through on an appointment the doctor had confirmed,
\* and the appointment is still confirmed
C23_Witness ==
    /\ ev.op = "paciente_edit" /\ ev.out = "ok"
    /\ \E i \in DOMAIN Appts(disk) :
          /\ NumIn(Appts(disk)[i].id) = ev.args.id
          /\ Appts(disk)[i].status = "confirmado"
          /\ Appts(disk)[i].last_modified_by = ses[ev.s].user.username

\* C24: an operation abandoned before completion (the cancel value at a
\* prompt, a declined confirmation) performs no persist: every file is the
\* same after it as before, also for a booking abandoned at the date prompt
C24_AbandonedPersistsNothing ==
    [][ev'.out = "cancelled" => disk' = disk]_vars

\* C28: every installment of every created invoice has a strictly positive
\* amount, for every positive total in whole cents and every positive count,
\* counts larger than the number of cents included
C28_InstallmentsPositive ==
    (ev.op = CreateOp /\ ev.out = "ok" /\ ev.args.total.v > 0) =>
        \A i \in DOMAIN LastInvoice.parcels : LastInvoice.parcels[i].amount > 0

BookOp == "cadastrar_agendamento"

\* C25: every appointment is created with status scheduled, and in every
\* reachable state the status of every appointment is one of scheduled,
\* confirmed, completed, cancelled
C25_CreatedScheduledStatusValid ==
    /\ [](\A i \in DOMAIN Appts(disk) : Appts(disk)[i].status \in StatusValues)
    /\ [][(ev'.op = BookOp /\ ev'.out = "ok") =>
            \E a \in {Appts(disk')[Len(Appts(disk'))]} :
               /\ Appts(disk') = Append(Appts(disk), a)
               /\ a.status = "agendado"]_vars

\* a booking has just been saved and the new record is scheduled
C25_Witness ==
    /\ ev.op = BookOp /\ ev.out = "ok"
    /\ Appts(disk) # <<>>
    /\ Appts(disk)[Len(Appts(disk))].status = "agendado"
    /\ Appts(disk)[Len(Appts(disk))].last_modified_by = None

\* C26: the assigned doctor's status change is accepted from any current
\* status to any of the four values (a cancelled or completed appointment
\* can be set back to scheduled or confirmed), and the owning patient can
\* mark an appointment cancelled from any current status
C26_NoTransitionForbidden ==
    [][\A i \in DOMAIN Appts(disk) :
          LET a == Appts(disk)[i]
              actor == ses[ev'.s].user.username
              after == {b \in {Appts(disk')[j] : j \in DOMAIN Appts(disk')} :
                           b.id = a.id}
          IN  /\ (/\ ev'.op = "editar_status"
                  /\ ev'.args.id = NumIn(a.id)
                  /\ a.doctor_user = actor
                  /\ Lower(ev'.args.novo) \in StatusValues) =>
                     /\ ev'.out = "ok"
                     /\ after # {}
                     /\ \A b \in after : b.status = Lower(ev'.args.novo)
              /\ (/\ ev'.op = "paciente_cancel"
                  /\ ev'.args.id = NumIn(a.id)
                  /\ a.patient_user = actor
                  /\ ev'.args.confirm) =>
                     /\ ev'.out = "ok"
                     /\ after # {}
                     /\ \A b \in after : b.status = "cancelado"
       ]_vars

\* the doctor has put an appointment back to scheduled
C26_Witness ==
    /\ ev.op = "editar_status" /\ ev.out = "ok"
    /\ Lower(ev.args.novo) = "agendado"
    /\ \E i \in DOMAIN Appts(disk) :
          /\ NumIn(Appts(disk)[i].id) = ev.args.id
          /\ Appts(disk)[i].status = "agendado"
          /\ Appts(disk)[i].last_modified_by = ses[ev.s].user.username

StampOps == {"paciente_edit", "paciente_cancel", "editar_status"}

\* C27: every successful mutation of an existing appointment (patient edit,
\* patient cancel, doctor status change) sets its last-modified-by to the
\* actor's username and leaves created-by unchanged; no other operation
\* touches either field, so last-modified-by names the most recent actor
C27_LastModifiedByActor ==
    [][\A i \in DOMAIN Appts(disk), j \in DOMAIN Appts(disk') :
          LET a == Appts(disk)[i]
              b == Appts(disk')[j]
              actor == ses[ev'.s].user.username
          IN  a.id = b.id =>
                 /\ b.created_by = a.created_by
                 /\ b.last_modified_by =
                       IF /\ ev'.op \in StampOps
                          /\ ev'.out = "ok"
                          /\ ev'.args.id = NumIn(a.id)
                       THEN actor
                       ELSE a.last_modified_by
       ]_vars

\* the doctor has just changed an appointment the patient created and last
\* touched: it is stamped with the doctor, created-by is still the patient
C27_Witness ==
    /\ ev.op = "editar_status" /\ ev.out = "ok"
    /\ \E i \in DOMAIN Appts(disk) :
          /\ NumIn(Appts(disk)[i].id) = ev.args.id
          /\ Appts(disk)[i].last_modified_by = "dr1"
          /\ Appts(disk)[i].created_by = "ana"
          /\ Appts(disk)[i].status = "concluido"

\* the accounts that have role doctor
Doctors(d) == {Users(d)[k].username : k \in {q \in DOMAIN Users(d) :
                                               Users(d)[q].role = "medico"}}

\* the doctor of the record a booking has just appended follows the
\* selection: none selected gives no doctor, a doctor selected gives an
\* account with role doctor
CreatedDoctorFollowsSelection ==
    (ev'.op = BookOp /\ ev'.out = "ok") =>
        LET a == Appts(disk')[Len(Appts(disk'))]
        IN  /\ ev'.args.doc = ZeroIn => a.doctor_user = None
            /\ a.doctor_user # None => a.doctor_user \in Doctors(disk)

\* the patient's edit went through with no doctor selected
EditedWithoutDoctor == ev'.op = "paciente_edit" /\ ev'.out = "ok" /\ ev'.args.doc = ZeroIn

\* C30 as amended: on creation, no doctor selected gives an appointment with
\* no doctor and a doctor selected gives the username of an account with
\* role doctor; when a patient edits an appointment and selects no doctor
\* the appointment keeps the doctor username it had
C30_EditWithoutDoctorKeepsDoctor ==
    [][/\ CreatedDoctorFollowsSelection
       /\ EditedWithoutDoctor =>
             \A i \in DOMAIN Appts(disk), j \in DOMAIN Appts(disk') :
                Appts(disk)[i].id = Appts(disk')[j].id =>
                   Appts(disk')[j].doctor_user = Appts(disk)[i].doctor_user
      ]_vars

\* an edit with no doctor selected went through on an appointment that has
\* a doctor
C30_Witness ==
    /\ ev.op = "paciente_edit" /\ ev.out = "ok" /\ ev.args.doc = ZeroIn
    /\ \E i \in DOMAIN Appts(disk) :
          /\ NumIn(Appts(disk)[i].id) = ev.args.id
          /\ Appts(disk)[i].doctor_user \in Doctors(disk)

\* C30 as stated: on creation as above; when a patient edits an appointment
\* and selects no doctor, the appointment ends with no doctor
C30_EditWithoutDoctorUnassigns ==
    [][/\ CreatedDoctorFollowsSelection
       /\ EditedWithoutDoctor =>
             \A j \in DOMAIN Appts(disk') :
                NumIn(Appts(disk')[j].id) = ev'.args.id =>
                   Appts(disk')[j].doctor_user = None
      ]_vars

====
